---- MODULE Spec2Model ----
(***************************************************************************)
(* Model of the WolkAbout connector's delivery pipeline (src/iot.py, class *)
(* Wolk): the bounded outbound message queue, the publish() drain loop,    *)
(* the side-effect publishers, the inbound message dispatch, construction, *)
(* connect()/disconnect() and the keep-alive timer.                        *)
(*                                                                         *)
(* The message queue, the message factory, the deserializer and the        *)
(* connectivity service are collaborators whose code is not part of        *)
(* src/; they are modelled from their contracts in spec.md (sections 4.1   *)
(* and 6).  The device callbacks belong to the application: a handler is   *)
(* recorded as a call, a provider returns any value.                       *)
(***************************************************************************)
EXTENDS Integers, Sequences, FiniteSets, TLC

\* ------------------------------------------------------------------ bounds

\* message_queue_size given at construction (iot.py:53 defaults it to 100).
message_queue_size == 2
\* Number of failed Transport.publish calls within one publish() drain.
MaxFails == 1
\* The host's callbacks come between the steps of a publish() drain until
\* the drain has made more than MaxPreempted Transport.publish calls.
MaxPreempted == 1

\* References and values the operations are called with.
SensorReferences == {"T1"}
SensorValues == {23}
AlarmReferences == {"AL1"}
AlarmValues == {1}
References == {"A1", "A2"}
Values == {0, 1}
\* The values the actuator status provider returns.
ActuatorValues == {1}
\* self.last_platform_timestamp = None (iot.py:92)
None == -1

\* ------------------------------------------------------------------ state

VARIABLES
    message_queue,             \* self.message_queue: sequence of messages
    last_platform_timestamp,   \* self.last_platform_timestamp
    actuation_handler,         \* TRUE iff self.actuation_handler is not None
    actuator_status_provider,  \* TRUE iff self.actuator_status_provider is not None
    configuration_handler,     \* TRUE iff self.configuration_handler is not None
    configuration_provider,    \* TRUE iff self.configuration_provider is not None
    keep_alive_enabled,        \* self.keep_alive_enabled
    actuator_references,       \* TRUE iff device.actuator_references is not empty
    constructed,               \* FALSE iff __init__ raised InterfaceNotProvided
    keep_alive_service,        \* self.keep_alive_service: "None", or the state
                               \*   "started" or "stopped" of the timer it holds
    orphaned,                  \* TRUE iff a started timer is no longer held by
                               \*   self.keep_alive_service
    pc,                        \* position of the publish() drain
    message,                   \* the local variable `message` of publish()
    op,                        \* history: the operation called last, and
                               \*   the inbound message it was called with
    trace,                     \* history: collaborator calls of that operation
    drain_start,               \* history: the queue when the drain was called
    pending                    \* history: the messages message_queue.put
                               \*   accepted that Transport.publish has not
                               \*   yet returned True for, oldest first

vars == <<message_queue, last_platform_timestamp, actuation_handler,
          actuator_status_provider, configuration_handler,
          configuration_provider, keep_alive_enabled, actuator_references,
          constructed, keep_alive_service, orphaned, pc, message, op,
          trace, drain_start, pending>>

handlers == <<actuation_handler, actuator_status_provider,
              configuration_handler, configuration_provider>>
\* What __init__ sets and no method assigns again.
fixed == <<handlers, keep_alive_enabled, actuator_references, constructed>>
timer == <<keep_alive_service, orphaned>>
drain == <<pc, message>>

\* ------------------------------------------------------------- messages

\* An outbound message: what the factory encoded.  A message has no
\* identity beyond its value.
Msg(kind, ref, val) == [kind |-> kind, ref |-> ref, val |-> val]
NoMessage == Msg("none", "", 0)

make_from_sensor_reading(reference, value) == Msg("reading", reference, value)
make_from_alarm(reference, active) == Msg("alarm", reference, active)
make_from_actuator_status(reference, value) == Msg("status", reference, value)
make_from_configuration(config) == Msg("configuration", "", config)
make_from_keep_alive_message == Msg("ping", "", 0)

\* An inbound message: what the deserializer's three predicates answer for
\* it, and the payload its parse_* functions read.
Inbound(act, cfg, ka, ref, val) ==
    [act |-> act, cfg |-> cfg, ka |-> ka, ref |-> ref, val |-> val]
NoInbound == Inbound(FALSE, FALSE, FALSE, "", 0)
\* The messages dispatched: actuation commands, configuration commands and
\* keep-alive responses, the unknown message, and one message for each way
\* of matching more than one predicate.
InboundMessages ==
    {Inbound(TRUE, FALSE, FALSE, "A1", 0), Inbound(TRUE, FALSE, FALSE, "A2", 1)}
    \cup {Inbound(FALSE, TRUE, FALSE, "", v) : v \in Values}
    \cup {Inbound(FALSE, FALSE, TRUE, "", v) : v \in Values}
    \cup {NoInbound}
    \cup {Inbound(TRUE, c, k, "A2", 1) : c \in BOOLEAN, k \in BOOLEAN}
    \cup {Inbound(FALSE, TRUE, TRUE, "", 1)}

is_actuation_command(m) == m.act
is_configuration_command(m) == m.cfg
is_keep_alive_response(m) == m.ka
parse_actuator_command(m) == [reference |-> m.ref, value |-> m.val]
parse_configuration_command(m) == m.val
parse_keep_alive_response(m) == m.val

Call(name, m) == [name |-> name, inbound |-> m]

\* An event of the trace: a call made to a collaborator.
Event(ev, m, ok) == [ev |-> ev, msg |-> m, ok |-> ok]

\* ---------------------------------------------------------- message queue

QueuePutOk(q) == Len(q) < message_queue_size
QueuePut(q, m) == IF QueuePutOk(q) THEN Append(q, m) ELSE q
QueuePeek(q) == IF q = <<>> THEN NoMessage ELSE Head(q)
QueueGet(q) == IF q = <<>> THEN q ELSE Tail(q)

\* ------------------------------------------------------------------- Init

\* Mutant: only the actuation handler is required of a device with
\* actuator references.
Wolk_init_handler_only(references, handler, provider, config_handler, config_provider, keep_alive) ==
    /\ message_queue = <<>>
    /\ last_platform_timestamp = None
    /\ actuation_handler = handler
    /\ actuator_status_provider = provider
    /\ configuration_handler = config_handler
    /\ configuration_provider = config_provider
    /\ keep_alive_enabled = keep_alive
    /\ keep_alive_service = "None"
    /\ orphaned = FALSE
    /\ actuator_references = references
    /\ constructed = ~(references /\ ~handler)
    /\ pc = "idle"
    /\ message = NoMessage
    /\ op = Call("__init__", NoInbound)
    /\ trace = <<>>
    /\ drain_start = <<>>
    /\ pending = <<>>

\* Wolk(device, actuation_handler, actuator_status_provider,
\*      configuration_handler, configuration_provider, keep_alive_enabled)
\* for a device with (references) or without actuator references.
Wolk_init(references, handler, provider, config_handler, config_provider, keep_alive) ==
    /\ message_queue = <<>>
    /\ last_platform_timestamp = None
    /\ actuation_handler = handler
    /\ actuator_status_provider = provider
    /\ configuration_handler = config_handler
    /\ configuration_provider = config_provider
    /\ keep_alive_enabled = keep_alive
    /\ keep_alive_service = "None"
    /\ orphaned = FALSE
    /\ actuator_references = references
    /\ constructed = ~(references /\ (~handler \/ ~provider))
    /\ pc = "idle"
    /\ message = NoMessage
    /\ op = Call("__init__", NoInbound)
    /\ trace = <<>>
    /\ drain_start = <<>>
    /\ pending = <<>>

\* A device without actuators, keep-alive left enabled (the default), any
\* of the four callbacks given.
Init ==
    \E h \in BOOLEAN, p \in BOOLEAN, ch \in BOOLEAN, cp \in BOOLEAN :
        Wolk_init(FALSE, h, p, ch, cp, TRUE)

\* ---------------------------------------------------------------- history

\* op, trace and drain_start tell of the operation the caller called last.
\* A callback the host runs between two steps of a running publish() drain
\* leaves the drain's history as it is.
Record(tr) == trace' = IF pc = "idle" THEN tr ELSE trace

Callback(name, m) ==
    IF pc = "idle"
    THEN op' = Call(name, m) /\ drain_start' = <<>>
    ELSE UNCHANGED <<op, drain_start>>

\* ---------------------------------------------------------- add_* (put)

\* Mutant: the queue puts a new message in front of the ones it holds.
Put_in_front(q, m, tr) ==
    /\ message_queue' = IF QueuePutOk(q) THEN <<m>> \o q ELSE q
    /\ pending' = IF QueuePutOk(q) THEN <<m>> \o pending ELSE pending
    /\ Record(Append(tr, Event("put", m, QueuePutOk(q))))

\* self.message_queue.put(message), with the history of what was accepted.
Put(q, m, tr) ==
    /\ message_queue' = QueuePut(q, m)
    /\ pending' = IF QueuePutOk(q) THEN Append(pending, m) ELSE pending
    /\ Record(Append(tr, Event("put", m, QueuePutOk(q))))

\* Mutant: a full queue makes room by dropping its oldest message.
add_sensor_reading_evicting(reference, value) ==
    LET m == make_from_sensor_reading(reference, value)
        q == IF QueuePutOk(message_queue) THEN message_queue
             ELSE Tail(message_queue)
    IN  /\ op' = Call("add_sensor_reading", NoInbound)
        /\ message_queue' = Append(q, m)
        /\ pending' = Append(pending, m)
        /\ trace' = <<Event("put", m, TRUE)>>
        /\ drain_start' = <<>>
        /\ UNCHANGED <<last_platform_timestamp, fixed, timer, drain>>

add_sensor_reading(reference, value) ==
    /\ op' = Call("add_sensor_reading", NoInbound)
    /\ Put(message_queue, make_from_sensor_reading(reference, value), <<>>)
    /\ drain_start' = <<>>
    /\ UNCHANGED <<last_platform_timestamp, fixed, timer, drain>>

\* Mutant: a full queue stores the new message over its newest one.
add_alarm_overwriting(reference, active) ==
    LET m == make_from_alarm(reference, active)
        q == IF QueuePutOk(message_queue) THEN message_queue
             ELSE SubSeq(message_queue, 1, Len(message_queue) - 1)
    IN  /\ op' = Call("add_alarm", NoInbound)
        /\ message_queue' = Append(q, m)
        /\ pending' = Append(pending, m)
        /\ trace' = <<Event("put", m, QueuePutOk(message_queue))>>
        /\ drain_start' = <<>>
        /\ UNCHANGED <<last_platform_timestamp, fixed, timer, drain>>

add_alarm(reference, active) ==
    /\ op' = Call("add_alarm", NoInbound)
    /\ Put(message_queue, make_from_alarm(reference, active), <<>>)
    /\ drain_start' = <<>>
    /\ UNCHANGED <<last_platform_timestamp, fixed, timer, drain>>

\* ------------------------------------------------------------- publish()

\* q without its oldest occurrence of m.
RECURSIVE Remove(_, _)
Remove(q, m) ==
    IF q = <<>> THEN q
    ELSE IF Head(q) = m THEN Tail(q)
    ELSE <<Head(q)>> \o Remove(Tail(q), m)

Fails(tr) == Len(SelectSeq(tr, LAMBDA e : e.ev = "publish" /\ ~e.ok))

\* The call: control enters the loop.
publish_call ==
    /\ pc = "idle"
    /\ pc' = "peek"
    /\ op' = Call("publish", NoInbound)
    /\ trace' = <<>>
    /\ drain_start' = message_queue
    /\ message' = NoMessage
    /\ UNCHANGED <<message_queue, last_platform_timestamp, fixed, timer,
                   pending>>

\* message = self.message_queue.peek(); if message is None: break
publish_peek ==
    /\ pc = "peek"
    /\ message' = QueuePeek(message_queue)
    /\ pc' = IF QueuePeek(message_queue) = NoMessage THEN "idle" ELSE "send"
    /\ UNCHANGED <<message_queue, last_platform_timestamp, fixed, timer,
                   op, trace, drain_start, pending>>

\* Mutant: the message is removed whatever the publish returned.
publish_send_skipping ==
    /\ pc = "send"
    /\ \E ok \in BOOLEAN :
        /\ ok \/ Fails(trace) < MaxFails
        /\ trace' = Append(trace, Event("publish", message, ok))
        /\ pending' = IF ok THEN Remove(pending, message) ELSE pending
        /\ pc' = "get"
    /\ UNCHANGED <<message_queue, last_platform_timestamp, fixed, timer,
                   message, op, drain_start>>

\* if self.connectivity_service.publish(message) is True: ... (else: loop)
publish_send ==
    /\ pc = "send"
    /\ \E ok \in BOOLEAN :
        /\ ok \/ Fails(trace) < MaxFails
        /\ trace' = Append(trace, Event("publish", message, ok))
        /\ pending' = IF ok THEN Remove(pending, message) ELSE pending
        /\ pc' = IF ok THEN "get" ELSE "peek"
    /\ UNCHANGED <<message_queue, last_platform_timestamp, fixed, timer,
                   message, op, drain_start>>

\* Mutant: the published message is left in the queue.
publish_get_keeping ==
    /\ pc = "get"
    /\ pc' = "peek"
    /\ UNCHANGED <<message_queue, last_platform_timestamp, fixed, timer, message,
                   op, trace, drain_start, pending>>

\* Mutant: the drain returns after its first successful publish.
publish_get_returning ==
    /\ pc = "get"
    /\ message_queue' = QueueGet(message_queue)
    /\ pc' = "idle"
    /\ message' = NoMessage
    /\ UNCHANGED <<last_platform_timestamp, fixed, timer, op, trace, drain_start,
                   pending>>

\* Mutant: the get empties the queue.
publish_get_clearing ==
    /\ pc = "get"
    /\ message_queue' = <<>>
    /\ pc' = "peek"
    /\ UNCHANGED <<last_platform_timestamp, fixed, timer, message, op,
                   trace, drain_start, pending>>

\* self.message_queue.get(), then the loop head again
publish_get ==
    /\ pc = "get"
    /\ message_queue' = QueueGet(message_queue)
    /\ pc' = "peek"
    /\ UNCHANGED <<last_platform_timestamp, fixed, timer, message, op,
                   trace, drain_start, pending>>

\* ------------------------------------------------ side-effect publishers

\* Mutant: the message is put whatever the publish returned.
PublishAndPut(m, ok, tr) ==
    Put(message_queue, m, Append(tr, Event("publish", m, ok)))

\* if not self.connectivity_service.publish(message):
\*     self.message_queue.put(message)
PublishOrPut(m, ok, tr) ==
    IF ok
    THEN /\ Record(Append(tr, Event("publish", m, TRUE)))
         /\ UNCHANGED <<message_queue, pending>>
    ELSE Put(message_queue, m, Append(tr, Event("publish", m, FALSE)))

\* The body of publish_actuator_status(reference), after the calls tr the
\* caller made; the provider returns the actuator's current value.
publish_actuator_status_body(reference, tr) ==
    IF ~actuator_status_provider
    THEN Record(tr) /\ UNCHANGED <<message_queue, pending>>
    ELSE \E value \in ActuatorValues, ok \in BOOLEAN :
            PublishOrPut(
                make_from_actuator_status(reference, value),
                ok,
                Append(tr, Event("actuator_status_provider",
                                 Msg("return", reference, value), TRUE)))

publish_actuator_status(reference) ==
    /\ op' = Call("publish_actuator_status", NoInbound)
    /\ publish_actuator_status_body(reference, <<>>)
    /\ drain_start' = <<>>
    /\ UNCHANGED <<last_platform_timestamp, fixed, timer, drain>>

\* The body of publish_configuration(), after the calls tr the caller made;
\* the provider returns the current configuration.  Calling the absent
\* configuration_provider raises TypeError.
publish_configuration_body(tr) ==
    IF ~configuration_handler
    THEN Record(tr) /\ UNCHANGED <<message_queue, pending>>
    ELSE IF ~configuration_provider
    THEN /\ Record(Append(tr, Event("TypeError", NoMessage, FALSE)))
         /\ UNCHANGED <<message_queue, pending>>
    ELSE \E config \in Values, ok \in BOOLEAN :
            PublishOrPut(
                make_from_configuration(config),
                ok,
                Append(tr, Event("configuration_provider",
                                 Msg("return", "", config), TRUE)))

publish_configuration ==
    /\ op' = Call("publish_configuration", NoInbound)
    /\ publish_configuration_body(<<>>)
    /\ drain_start' = <<>>
    /\ UNCHANGED <<last_platform_timestamp, fixed, timer, drain>>

\* ------------------------------------------------------- inbound dispatch

Ignore == Record(<<>>) /\ UNCHANGED <<message_queue, pending>>

\* Mutant: the actuator status is published without the handler being called.
on_inbound_message_unhandled(m) ==
    /\ Callback("_on_inbound_message", m)
    /\ UNCHANGED <<fixed, timer, drain>>
    /\ IF is_actuation_command(m)
       THEN IF ~actuation_handler \/ ~actuator_status_provider
            THEN Ignore /\ UNCHANGED last_platform_timestamp
            ELSE /\ publish_actuator_status_body(
                        parse_actuator_command(m).reference, <<>>)
                 /\ UNCHANGED last_platform_timestamp
       ELSE IF is_configuration_command(m)
       THEN IF ~configuration_provider \/ ~configuration_handler
            THEN Ignore /\ UNCHANGED last_platform_timestamp
            ELSE /\ publish_configuration_body(
                        <<Event("configuration_handler",
                                Msg("call", "", parse_configuration_command(m)),
                                TRUE)>>)
                 /\ UNCHANGED last_platform_timestamp
       ELSE IF is_keep_alive_response(m)
       THEN /\ last_platform_timestamp' = parse_keep_alive_response(m)
            /\ Ignore
       ELSE Ignore /\ UNCHANGED last_platform_timestamp

\* Mutant: a branch whose collaborator is missing does not return, and the
\* later predicates are tried.
on_inbound_message_falling_through(m) ==
    /\ Callback("_on_inbound_message", m)
    /\ UNCHANGED <<fixed, timer, drain>>
    /\ IF is_actuation_command(m) /\ actuation_handler
          /\ actuator_status_provider
       THEN /\ publish_actuator_status_body(
                   parse_actuator_command(m).reference,
                   <<Event("actuation_handler",
                           Msg("call", parse_actuator_command(m).reference,
                               parse_actuator_command(m).value), TRUE)>>)
            /\ UNCHANGED last_platform_timestamp
       ELSE IF is_configuration_command(m) /\ configuration_provider
                /\ configuration_handler
       THEN /\ publish_configuration_body(
                   <<Event("configuration_handler",
                           Msg("call", "", parse_configuration_command(m)),
                           TRUE)>>)
            /\ UNCHANGED last_platform_timestamp
       ELSE IF is_keep_alive_response(m)
       THEN /\ last_platform_timestamp' = parse_keep_alive_response(m)
            /\ Ignore
       ELSE Ignore /\ UNCHANGED last_platform_timestamp

\* Mutant: the configuration published is the one the command carried.
on_inbound_message_echoing(m) ==
    /\ Callback("_on_inbound_message", m)
    /\ UNCHANGED <<fixed, timer, drain>>
    /\ IF is_actuation_command(m)
       THEN IF ~actuation_handler \/ ~actuator_status_provider
            THEN Ignore /\ UNCHANGED last_platform_timestamp
            ELSE LET actuation == parse_actuator_command(m)
                 IN  /\ publish_actuator_status_body(
                            actuation.reference,
                            <<Event("actuation_handler",
                                    Msg("call", actuation.reference,
                                        actuation.value), TRUE)>>)
                     /\ UNCHANGED last_platform_timestamp
       ELSE IF is_configuration_command(m)
       THEN IF ~configuration_provider \/ ~configuration_handler
            THEN Ignore /\ UNCHANGED last_platform_timestamp
            ELSE LET config == parse_configuration_command(m)
                 IN  /\ \E current \in Values, ok \in BOOLEAN :
                            PublishOrPut(
                                make_from_configuration(config),
                                ok,
                                <<Event("configuration_handler",
                                        Msg("call", "", config), TRUE),
                                  Event("configuration_provider",
                                        Msg("return", "", current), TRUE)>>)
                     /\ UNCHANGED last_platform_timestamp
       ELSE IF is_keep_alive_response(m)
       THEN /\ last_platform_timestamp' = parse_keep_alive_response(m)
            /\ Ignore
       ELSE Ignore /\ UNCHANGED last_platform_timestamp

on_inbound_message(m) ==
    /\ Callback("_on_inbound_message", m)
    /\ UNCHANGED <<fixed, timer, drain>>
    /\ IF is_actuation_command(m)
       THEN IF ~actuation_handler \/ ~actuator_status_provider
            THEN Ignore /\ UNCHANGED last_platform_timestamp
            ELSE LET actuation == parse_actuator_command(m)
                 IN  /\ publish_actuator_status_body(
                            actuation.reference,
                            <<Event("actuation_handler",
                                    Msg("call", actuation.reference,
                                        actuation.value), TRUE)>>)
                     /\ UNCHANGED last_platform_timestamp
       ELSE IF is_configuration_command(m)
       THEN IF ~configuration_provider \/ ~configuration_handler
            THEN Ignore /\ UNCHANGED last_platform_timestamp
            ELSE LET config == parse_configuration_command(m)
                 IN  /\ publish_configuration_body(
                            <<Event("configuration_handler",
                                    Msg("call", "", config), TRUE)>>)
                     /\ UNCHANGED last_platform_timestamp
       ELSE IF is_keep_alive_response(m)
       THEN /\ last_platform_timestamp' = parse_keep_alive_response(m)
            /\ Ignore
       ELSE Ignore /\ UNCHANGED last_platform_timestamp

\* ------------------------------------------------ connection, keep-alive

\* connect(): every call makes a new timer and starts it; the timer held
\* before, if it is still started, keeps running with nothing holding it.
connect ==
    /\ op' = Call("connect", NoInbound)
    /\ trace' = <<Event("connect", NoMessage, TRUE)>>
    /\ IF keep_alive_enabled
       THEN /\ keep_alive_service' = "started"
            /\ orphaned' = (orphaned \/ keep_alive_service = "started")
       ELSE UNCHANGED timer
    /\ drain_start' = <<>>
    /\ UNCHANGED <<message_queue, last_platform_timestamp, fixed, drain,
                   pending>>

\* Mutant: disconnecting forgets the platform's timestamp.
disconnect_resetting ==
    /\ op' = Call("disconnect", NoInbound)
    /\ IF keep_alive_enabled /\ keep_alive_service = "None"
       THEN /\ trace' = <<Event("disconnect", NoMessage, TRUE),
                          Event("AttributeError", NoMessage, FALSE)>>
            /\ UNCHANGED timer
       ELSE /\ trace' = <<Event("disconnect", NoMessage, TRUE)>>
            /\ keep_alive_service' =
                   IF keep_alive_enabled THEN "stopped" ELSE keep_alive_service
            /\ UNCHANGED orphaned
    /\ last_platform_timestamp' = None
    /\ drain_start' = <<>>
    /\ UNCHANGED <<message_queue, fixed, drain, pending>>

\* disconnect(): self.keep_alive_service.stop() raises AttributeError while
\* self.keep_alive_service is None.
disconnect ==
    /\ op' = Call("disconnect", NoInbound)
    /\ IF keep_alive_enabled /\ keep_alive_service = "None"
       THEN /\ trace' = <<Event("disconnect", NoMessage, TRUE),
                          Event("AttributeError", NoMessage, FALSE)>>
            /\ UNCHANGED timer
       ELSE /\ trace' = <<Event("disconnect", NoMessage, TRUE)>>
            /\ keep_alive_service' =
                   IF keep_alive_enabled THEN "stopped" ELSE keep_alive_service
            /\ UNCHANGED orphaned
    /\ drain_start' = <<>>
    /\ UNCHANGED <<message_queue, last_platform_timestamp, fixed, drain,
                   pending>>

\* A keep-alive timer is running.
TimerRunning == keep_alive_service = "started" \/ orphaned

\* Mutant: a keep-alive message that was not published is put in the queue.
send_keep_alive_buffering ==
    /\ TimerRunning
    /\ Callback("_send_keep_alive", NoInbound)
    /\ \E ok \in BOOLEAN :
          PublishOrPut(make_from_keep_alive_message, ok, <<>>)
    /\ UNCHANGED <<last_platform_timestamp, fixed, timer, drain>>

\* _send_keep_alive(), called by a running timer: the result of publish is
\* not looked at.
send_keep_alive ==
    /\ TimerRunning
    /\ Callback("_send_keep_alive", NoInbound)
    /\ \E ok \in BOOLEAN :
          Record(<<Event("publish", make_from_keep_alive_message, ok)>>)
    /\ UNCHANGED <<message_queue, last_platform_timestamp, fixed, timer,
                   drain, pending>>

\* ------------------------------------------------------------------- Next

\* The caller and the inbound callback run on one thread of control: an
\* operation is called only while no publish() drain is running.
Next ==
    \/ \E r \in SensorReferences, v \in SensorValues :
        pc = "idle" /\ add_sensor_reading(r, v)
    \/ \E r \in AlarmReferences, v \in AlarmValues :
        pc = "idle" /\ add_alarm(r, v)
    \/ \E r \in References : pc = "idle" /\ publish_actuator_status(r)
    \/ pc = "idle" /\ publish_configuration
    \/ \E m \in InboundMessages : pc = "idle" /\ on_inbound_message(m)
    \/ publish_call
    \/ publish_peek
    \/ publish_send
    \/ publish_get

Spec == Init /\ [][Next]_vars

\* A device with actuators and all four callbacks given, keep-alive enabled
\* or not.
InitLife ==
    \E k \in BOOLEAN : Wolk_init(TRUE, TRUE, TRUE, TRUE, TRUE, k)

\* The operations of Next and the connection's: connect(), disconnect() and
\* the timer's callback.  Nothing is called on a connector whose
\* construction raised.
NextLife ==
    /\ constructed
    /\ \/ Next
       \/ pc = "idle" /\ connect
       \/ pc = "idle" /\ disconnect
       \/ pc = "idle" /\ send_keep_alive

SpecLife == InitLife /\ [][NextLife]_vars

\* Every way of giving or leaving out the four callbacks, for a device with
\* or without actuator references.
InitConstruct ==
    \E r \in BOOLEAN, h \in BOOLEAN, p \in BOOLEAN, ch \in BOOLEAN,
       cp \in BOOLEAN :
        Wolk_init(r, h, p, ch, cp, TRUE)

\* Nothing is called on a connector whose construction raised.
NextConstruct == constructed /\ Next

SpecConstruct == InitConstruct /\ [][NextConstruct]_vars

\* All four callbacks given, to a device without actuators.
InitLive == Wolk_init(FALSE, TRUE, TRUE, TRUE, TRUE, TRUE)

\* The caller calls publish() again and again, a running drain goes on, and
\* a Transport.publish that is tried again and again succeeds in the end.
Fairness ==
    /\ WF_vars(publish_call)
    /\ WF_vars(publish_peek)
    /\ SF_vars(publish_send /\ pc' = "get")
    /\ WF_vars(publish_get)

SpecLive == InitLive /\ [][Next]_vars /\ Fairness

\* The inbound callback and the keep-alive timer's callback are run by the
\* host and may come between any two steps of a running publish() drain;
\* each is one step, as the only thing it does to the queue is one put.
Preempted == pc # "idle" /\ Len(trace) <= MaxPreempted

NextPreempt ==
    \/ Next
    \/ pc = "idle" /\ connect
    \/ pc = "idle" /\ send_keep_alive
    \/ \E m \in InboundMessages : Preempted /\ on_inbound_message(m)
    \/ Preempted /\ send_keep_alive

\* The actuation handler and the actuator status provider given, or the
\* configuration handler and the configuration provider.
InitPreempt == \E a \in BOOLEAN : Wolk_init(FALSE, a, a, ~a, ~a, TRUE)

SpecPreempt == InitPreempt /\ [][NextPreempt]_vars

\* ============================================================== properties

EventsOf(tr, ev) == SelectSeq(tr, LAMBDA e : e.ev = ev)
\* The place of the first failed Transport.publish call among the publish
\* calls of tr, 0 when none failed.
FirstFail(tr) ==
    LET pubs == EventsOf(tr, "publish")
        bad == {i \in 1..Len(pubs) : ~pubs[i].ok}
    IN  IF bad = {} THEN 0 ELSE CHOOSE i \in bad : \A j \in bad : i <= j

\* publish() has returned and nothing was called since.
DrainReturned == op.name = "publish" /\ pc = "idle"
\* The step is one whole call of an operation other than publish().
Called(name) == pc = "idle" /\ pc' = "idle" /\ op'.name = name

\* ---- C1
\* C1: every publish() drain terminates; when Transport.publish fails for
\* the head message, publish() returns after that failed attempt: the step
\* that makes a failed attempt is the drain's last.
C1_ReturnsAfterFailedPublish ==
    [][(pc = "send" /\ Len(trace') = Len(trace) + 1
        /\ ~trace'[Len(trace')].ok) => pc' = "idle"]_vars

\* ---- C2
\* C2: when the k-th Transport.publish call of a drain is the first to fail,
\* the drain makes no further call and returns with the buffer holding
\* exactly the messages from position k on, in their original order.
C2_FailedDrainKeepsSuffix ==
    (DrainReturned /\ FirstFail(trace) > 0) =>
        /\ Len(EventsOf(trace, "publish")) = FirstFail(trace)
        /\ message_queue =
               SubSeq(drain_start, FirstFail(trace), Len(drain_start))

\* ---- C3
\* C3: buffered messages reach Transport in enqueue order: the message a
\* drain offers to Transport is always the oldest message the buffer
\* accepted that Transport has not yet accepted (no reordering, no
\* skip-ahead), so the accepted messages are a prefix of the enqueued ones.
C3_OffersOldestPending ==
    pc \in {"send", "get"} =>
        /\ message # NoMessage
        /\ message = Head(message_queue)
        /\ pc = "send" => (pending # <<>> /\ message = Head(pending))

C3_Witness ==
    /\ pc = "send"
    /\ Fails(trace) = 1
    /\ Len(pending) = 2
    /\ pending[1] # pending[2]

\* ---- C4
\* C4: an accepted message leaves the buffer only by the get() that follows
\* its successful publish: the buffer holds exactly the accepted messages
\* Transport has not yet accepted (none is lost on a failure), and one that
\* Transport has accepted is in the buffer only until that get() (none is
\* sent again).
C4_BufferIsPending ==
    IF pc = "get"
    THEN message_queue = <<message>> \o pending
    ELSE message_queue = pending

C4_Witness ==
    /\ pc = "peek"
    /\ Len(drain_start) = 2
    /\ Len(trace) = 2
    /\ ~trace[1].ok
    /\ trace[2].ok
    /\ message_queue = Tail(drain_start)

\* ---- C5
\* C5: the buffer never holds more than message_queue_size messages, and a
\* step changes it only by appending one message to a buffer that is not
\* full or by the drain's get() of its head: a full buffer rejects the new
\* message and evicts nothing.
C5_Appended ==
    /\ Len(message_queue) < message_queue_size
    /\ Len(message_queue') = Len(message_queue) + 1
    /\ SubSeq(message_queue', 1, Len(message_queue)) = message_queue

C5_BoundedNoEviction ==
    /\ [](Len(message_queue) <= message_queue_size)
    /\ [][\/ message_queue' = message_queue
          \/ C5_Appended
          \/ pc = "get" /\ message_queue' = Tail(message_queue)]_vars

C5_Witness ==
    /\ op.name = "_on_inbound_message"
    /\ Len(message_queue) = message_queue_size
    /\ Len(trace) > 0
    /\ trace[Len(trace)].ev = "put"
    /\ ~trace[Len(trace)].ok

\* ---- C6
\* C6: a put on a full buffer, reached through add_sensor_reading, add_alarm
\* or a side-effect publisher's fallback, reports failure and leaves the
\* buffer's contents and order as they were.
C6_FullPutRejected ==
    [][(pc = "idle" /\ pc' = "idle"
        /\ Len(message_queue) = message_queue_size) =>
           /\ message_queue' = message_queue
           /\ \A i \in 1..Len(trace') : trace'[i].ev = "put" => ~trace'[i].ok]_vars

\* Capacity 2 and three add_alarm calls: the first two alarms are held.
C6_Witness ==
    /\ op.name = "add_alarm"
    /\ Len(message_queue) = message_queue_size
    /\ \A i \in 1..Len(message_queue) : message_queue[i].kind = "alarm"
    /\ Len(trace) = 1
    /\ trace[1].ev = "put"
    /\ ~trace[1].ok

\* ---- C7
\* C7: a drain in which every Transport.publish call succeeds returns with
\* the buffer empty, having made exactly one call per message the buffer
\* held when it started, in insertion order.
C7_AllSuccessDrainEmpties ==
    (DrainReturned /\ Fails(trace) = 0) =>
        /\ message_queue = <<>>
        /\ Len(trace) = Len(drain_start)
        /\ \A i \in 1..Len(trace) :
               trace[i] = Event("publish", drain_start[i], TRUE)

C7_Witness ==
    /\ DrainReturned
    /\ Fails(trace) = 0
    /\ Len(drain_start) = message_queue_size
    /\ drain_start[1] = make_from_sensor_reading("T1", 23)

\* ---- C8
\* C8: publish_actuator_status and publish_configuration, when they make a
\* response message, make exactly one immediate Transport.publish attempt
\* for it and put it into the buffer if and only if that attempt failed: a
\* response is never both delivered and buffered, and it is lost only when
\* the attempt fails and the buffer is full.
C8_Responds ==
    \/ Called("publish_actuator_status") /\ actuator_status_provider
    \/ Called("publish_configuration") /\ configuration_handler
           /\ configuration_provider

C8_OneAttemptThenFallback ==
    [][C8_Responds =>
        LET pubs == EventsOf(trace', "publish")
            puts == EventsOf(trace', "put")
        IN  /\ Len(pubs) = 1
            /\ pubs[1].msg.kind \in {"status", "configuration"}
            /\ IF pubs[1].ok
               THEN /\ puts = <<>>
                    /\ message_queue' = message_queue
               ELSE /\ Len(puts) = 1
                    /\ puts[1].msg = pubs[1].msg
                    /\ puts[1].ok = (Len(message_queue) < message_queue_size)
                    /\ message_queue' =
                           IF Len(message_queue) < message_queue_size
                           THEN Append(message_queue, pubs[1].msg)
                           ELSE message_queue]_vars

\* The response is lost: the attempt failed and the buffer was full.
C8_Witness ==
    /\ op.name = "publish_configuration"
    /\ pc = "idle"
    /\ Len(trace) = 3
    /\ trace[2].ev = "publish" /\ ~trace[2].ok
    /\ trace[3].ev = "put" /\ ~trace[3].ok

\* ---- C9
\* C9: dispatching an actuation command with the actuation handler and the
\* actuator status provider registered calls the handler exactly once with
\* the parsed (reference, value), and only afterwards asks the provider and
\* makes exactly one publish attempt of the status of that same reference.
C9_HandlerThenStatus ==
    (op.name = "_on_inbound_message" /\ is_actuation_command(op.inbound)
     /\ actuation_handler /\ actuator_status_provider) =>
        /\ Len(trace) >= 3
        /\ trace[1] = Event("actuation_handler",
                            Msg("call", op.inbound.ref, op.inbound.val), TRUE)
        /\ trace[2].ev = "actuator_status_provider"
        /\ trace[2].msg.ref = op.inbound.ref
        /\ trace[3].ev = "publish"
        /\ trace[3].msg =
               make_from_actuator_status(op.inbound.ref, trace[2].msg.val)
        /\ Len(EventsOf(trace, "actuation_handler")) = 1
        /\ Len(EventsOf(trace, "publish")) = 1

C9_Witness ==
    /\ op.name = "_on_inbound_message"
    /\ op.inbound = Inbound(TRUE, FALSE, FALSE, "A2", 1)
    /\ Len(trace) = 3
    /\ trace[3].ok

\* ---- C10
\* C10: one branch fires per inbound message, in the order actuation
\* command, configuration command, keep-alive response, unknown: only the
\* first matching branch acts, even when it ignores the message for a
\* missing collaborator; a dispatch makes at most one publish attempt; an
\* unknown message changes nothing and publishes nothing.
C10_Silent ==
    /\ trace' = <<>>
    /\ message_queue' = message_queue
    /\ pending' = pending

C10_Branch(m) ==
    IF is_actuation_command(m)
    THEN /\ last_platform_timestamp' = last_platform_timestamp
         /\ EventsOf(trace', "configuration_handler") = <<>>
         /\ EventsOf(trace', "configuration_provider") = <<>>
         /\ (~actuation_handler \/ ~actuator_status_provider) => C10_Silent
    ELSE IF is_configuration_command(m)
    THEN /\ last_platform_timestamp' = last_platform_timestamp
         /\ EventsOf(trace', "actuation_handler") = <<>>
         /\ EventsOf(trace', "actuator_status_provider") = <<>>
         /\ (~configuration_handler \/ ~configuration_provider) => C10_Silent
    ELSE IF is_keep_alive_response(m)
    THEN /\ last_platform_timestamp' = parse_keep_alive_response(m)
         /\ C10_Silent
    ELSE /\ last_platform_timestamp' = last_platform_timestamp
         /\ C10_Silent

C10_FirstMatchOnly ==
    [][Called("_on_inbound_message") =>
        /\ C10_Branch(op'.inbound)
        /\ Len(EventsOf(trace', "publish")) <= 1
        /\ UNCHANGED <<fixed, timer, drain>>]_vars

\* A message matching all three predicates was dispatched with the actuation
\* handler missing: nothing was called and no timestamp was recorded.
C10_Witness ==
    /\ op = Call("_on_inbound_message", Inbound(TRUE, TRUE, TRUE, "A2", 1))
    /\ ~actuation_handler
    /\ configuration_handler /\ configuration_provider
    /\ last_platform_timestamp = None
    /\ trace = <<>>

\* ---- C11
\* C11: request_timestamp() returns None until the first inbound message
\* classified as a keep-alive response is dispatched; a step changes the
\* timestamp only by dispatching such a message, to the value parsed from
\* it (over the previous value); every other operation (add_*, publish,
\* the side-effect publishers, connect, disconnect, the keep-alive tick,
\* the dispatch of any other message) leaves it as it was.
request_timestamp == last_platform_timestamp

\* The dispatch reaches the keep-alive branch.
C11_Records(m) ==
    /\ ~is_actuation_command(m)
    /\ ~is_configuration_command(m)
    /\ is_keep_alive_response(m)

C12_DisabledKeepsNone ==
    ~keep_alive_enabled => request_timestamp = None

\* ---- C13
\* C13: constructing the connector for a device with actuator references
\* raises InterfaceNotProvided whenever the actuation handler or the
\* actuator status provider is missing and succeeds when both are given;
\* for a device without actuator references it succeeds whichever callbacks
\* are given.  A connector whose construction raised is never operated.
C13_ConstructionChecksActuators ==
    /\ (actuator_references /\ ~actuation_handler) => ~constructed
    /\ (actuator_references /\ ~actuator_status_provider) => ~constructed
    /\ (actuator_references /\ actuation_handler
         /\ actuator_status_provider) => constructed
    /\ ~actuator_references => constructed
    /\ ~constructed => op.name = "__init__"

\* The handler is given, the provider is not: construction raised.
C13_Witness ==
    /\ actuator_references
    /\ actuation_handler
    /\ ~actuator_status_provider
    /\ ~constructed

\* ---- C14
\* C14: whichever of the four callbacks are absent, every inbound dispatch
\* and every call of publish_actuator_status or publish_configuration
\* completes without a fault and without calling an absent callback; an
\* operation that lacks a collaborator it needs does nothing (no publish,
\* no put).
C14_Lacking ==
    \/ op.name = "publish_actuator_status" /\ ~actuator_status_provider
    \/ op.name = "publish_configuration"
           /\ (~configuration_handler \/ ~configuration_provider)
    \/ op.name = "_on_inbound_message" /\ is_actuation_command(op.inbound)
           /\ (~actuation_handler \/ ~actuator_status_provider)
    \/ op.name = "_on_inbound_message" /\ ~is_actuation_command(op.inbound)
           /\ is_configuration_command(op.inbound)
           /\ (~configuration_handler \/ ~configuration_provider)

C14_AbsentCallbacksDegrade ==
    /\ EventsOf(trace, "TypeError") = <<>>
    /\ ~actuation_handler => EventsOf(trace, "actuation_handler") = <<>>
    /\ ~actuator_status_provider =>
           EventsOf(trace, "actuator_status_provider") = <<>>
    /\ ~configuration_handler =>
           EventsOf(trace, "configuration_handler") = <<>>
    /\ ~configuration_provider =>
           EventsOf(trace, "configuration_provider") = <<>>
    /\ C14_Lacking => trace = <<>>

\* ---- C15
\* C15: every message the buffer accepted is eventually accepted by
\* Transport, provided that publish() is called again and that
\* Transport.publish succeeds in the end; until then a failed publish never
\* discards it.  In three parts: whenever accepted messages are waiting, a
\* later state has none waiting; a message stops waiting only when
\* Transport.publish returns True for it, oldest first; and the buffer
\* loses a message only by the get() that follows that successful publish.
C15_EventuallyAccepted ==
    /\ (pending # <<>>) ~> (pending = <<>>)
    /\ [][pending' # pending =>
             \/ Len(pending') = Len(pending) + 1
                   /\ SubSeq(pending', 1, Len(pending)) = pending
             \/ /\ pc = "send"
                /\ trace' = Append(trace,
                                   Event("publish", Head(pending), TRUE))
                /\ pending' = Tail(pending)]_vars
    /\ [][Len(message_queue') < Len(message_queue) =>
             /\ pc = "get"
             /\ trace[Len(trace)] = Event("publish", Head(message_queue), TRUE)
             /\ message_queue' = Tail(message_queue)]_vars

\* Transport refused the message first and accepts it now, with another
\* message waiting behind it.
C15_Witness ==
    /\ pc = "get"
    /\ Fails(trace) >= 1
    /\ trace[1] = Event("publish", message, FALSE)
    /\ Len(message_queue) = 2

\* ---- C16
\* C16: dispatching a configuration command with the configuration handler
\* and provider registered calls the handler exactly once with the parsed
\* configuration, asks the provider only after that, and makes exactly one
\* publish attempt, of the configuration the provider returned and not of
\* the one the command carried.
C16_HandlerThenSnapshot ==
    (op.name = "_on_inbound_message" /\ ~is_actuation_command(op.inbound)
     /\ is_configuration_command(op.inbound)
     /\ configuration_handler /\ configuration_provider) =>
        /\ Len(trace) >= 3
        /\ trace[1] = Event("configuration_handler",
                            Msg("call", "",
                                parse_configuration_command(op.inbound)), TRUE)
        /\ trace[2].ev = "configuration_provider"
        /\ trace[3] = Event("publish",
                            make_from_configuration(trace[2].msg.val),
                            trace[3].ok)
        /\ Len(EventsOf(trace, "configuration_handler")) = 1
        /\ Len(EventsOf(trace, "configuration_provider")) = 1
        /\ Len(EventsOf(trace, "publish")) = 1

\* The command carried 1, the provider returned 0, and 0 was published.
C16_Witness ==
    /\ op = Call("_on_inbound_message", Inbound(FALSE, TRUE, FALSE, "", 1))
    /\ Len(trace) = 3
    /\ trace[2].msg.val = 0
    /\ trace[3] = Event("publish", make_from_configuration(0), TRUE)

\* ---- C17
\* C17: a keep-alive tick makes one Transport.publish attempt of the
\* keep-alive message and leaves the buffer as it was whether the attempt
\* succeeds or fails (nothing is put, nothing is tried again); dispatching
\* a keep-alive response publishes nothing and leaves the buffer as it was.
C17_TickAndResponseLeaveBuffer ==
    [][/\ Called("_send_keep_alive") =>
            /\ Len(trace') = 1
            /\ trace'[1] = Event("publish", make_from_keep_alive_message,
                                 trace'[1].ok)
            /\ UNCHANGED <<message_queue, pending>>
       /\ (Called("_on_inbound_message") /\ C11_Records(op'.inbound)) =>
            /\ trace' = <<>>
            /\ UNCHANGED <<message_queue, pending>>]_vars

\* The keep-alive message was refused by Transport while the buffer, which
\* holds a message, had room for it.
C17_Witness ==
    /\ op.name = "_send_keep_alive"
    /\ trace = <<Event("publish", make_from_keep_alive_message, FALSE)>>
    /\ Len(message_queue) = 1
    /\ message_queue_size > 1

\* ---- C18
\* C18: with peek, get and put each atomic, and the inbound callback (whose
\* side-effect publishers may put) and the keep-alive tick coming between
\* any two steps of a running publish() drain, the message get() removes
\* is the one whose publish has just succeeded, no buffered message is
\* removed unpublished or offered again after Transport accepted it, and
\* the drain offers the buffered messages in the order they were put.
C18_PreemptedDrainKeepsOrder ==
    /\ pc = "get" =>
           /\ message_queue # <<>>
           /\ Head(message_queue) = message
           /\ trace[Len(trace)] = Event("publish", message, TRUE)
    /\ IF pc = "get"
       THEN message_queue = <<message>> \o pending
       ELSE message_queue = pending
    /\ pc = "send" => (pending # <<>> /\ message = Head(pending))

\* The drain started with one message and has published it; before its
\* get() a callback has put a response behind it.
C18_Witness ==
    /\ pc = "get"
    /\ Len(drain_start) = 1
    /\ Len(trace) = 1
    /\ Len(message_queue) = 2
    /\ message_queue[2].kind \in {"status", "configuration"}

\* ---- C19
\* C19: responses reach Transport in the order the device made them, over
\* both paths: while an actuator status (or configuration) message made
\* earlier is still in the buffer, a later one for the same reference is
\* not accepted by Transport; the immediate publish of a side-effect
\* publisher does not overtake an older buffered response.
C19_Overtakes(e) ==
    /\ e.ev = "publish"
    /\ e.ok
    /\ e.msg.kind \in {"status", "configuration"}
    /\ \E j \in 1..Len(pending) :
           pending[j].kind = e.msg.kind /\ pending[j].ref = e.msg.ref

C19_ImmediateNeverOvertakes ==
    (pc = "idle" /\ op.name \in {"publish_actuator_status",
                                 "publish_configuration",
                                 "_on_inbound_message"}) =>
        \A i \in 1..Len(trace) : ~C19_Overtakes(trace[i])

\* ---- C20
\* C20: for every sequence of connect() and disconnect() calls on a
\* connector with keep-alive enabled (disconnect() before any connect(),
\* and connect() twice with no disconnect() between, included),
\* disconnect() completes without a fault and no keep-alive timer is
\* running after it returns, so that no keep-alive message is sent until
\* the next connect(); at most one keep-alive timer runs at any time.
C20_DisconnectStopsKeepAlive ==
    keep_alive_enabled =>
        /\ EventsOf(trace, "AttributeError") = <<>>
        /\ op.name = "disconnect" => ~TimerRunning
        /\ keep_alive_service # "started" => ~TimerRunning
        /\ ~(keep_alive_service = "started" /\ orphaned)

====
